---- MODULE Spec2Model ----
(***************************************************************************)
(* The compression stage of the hard-particle Monte Carlo workflow: the    *)
(* three compression drivers of the repository (the hard-sphere            *)
(* compression notebook, compress(params) of the homework notebook and the *)
(* spherocylinder walkthrough notebook), the QuickCompress updater and the *)
(* MoveSize tuner they attach, and the trial moves of the HPMC integrator. *)
(*                                                                         *)
(* Abstraction.  A box is its volume, a natural number of volume units     *)
(* (the hard-sphere target keeps the shape of the initial box, so the      *)
(* volume identifies it).  The configuration is seen through the three     *)
(* quantities the integrator exposes: the number of overlapping pairs and  *)
(* the accepted / rejected move counters.  Densities are integers in units *)
(* of 1/RhoScale, and time is scaled (TriggerPeriod, RunSteps and the      *)
(* budgets stand for 10, 1000 and 5e4 / 1e6 time steps).  A move size is a  *)
(* point of a geometric grid: point i >= 1 stands for the amplitude         *)
(* smallest * g^(i-1), so a multiplicative factor of the tuner is a shift  *)
(* on the grid.  One move type is kept: the rotation move size a is tuned  *)
(* by the same rule from counters of its own.                              *)
(*                                                                         *)
(* Around the compression stage the module holds the other stages of       *)
(* run_simulation (the lattice of initialize, the randomization run, the   *)
(* equilibration run with its tuner and its trajectory writer), the        *)
(* lattice as a function of its parameters, with lengths as whole numbers  *)
(* of a twentieth of a diameter unit, single trial moves on the particles  *)
(* of a periodic row, and render_movie of the trajectory analysis.         *)
(***************************************************************************)
EXTENDS Integers, FiniteSets, Sequences, TLC

\* ------------------------------------------------------------- bounds
\* Largest particle count of a run.
MaxN == 2
\* Largest number of overlapping pairs one box rescale may leave behind.
MaxOverlaps == 2
\* Period of the QuickCompress and MoveSize triggers (Periodic(10)).
TriggerPeriod == 2
\* Steps of one sim.run(1000) call of the driver loop.
RunSteps == 4
\* Largest step budget of the driver loop (5e4, 1e6).
MaxBudget == 6
\* Time step stored in random.gsd by the randomization run (sim.run(10e3)).
RandomizeSteps == 2
\* rho_star = 1 (and packing fraction 1) in density units.
RhoScale == 2
\* Volume of the initial, dilute box per particle, in volume units.
InitVolume == 3
\* Volume of one sphere (4/3 * pi * 0.5**3), in volume units.
V_particle == 1
\* Target packing fraction of the hard-sphere notebook (0.57), in density units.
final_packing_fraction == 1
\* 1 / rho_c: volume per spherocylinder at close packing, in volume units.
inv_rho_c == 2
\* The target acceptance ratio of the tuner (target=0.2) is TargetNum / TargetDen.
TargetNum == 1
TargetDen == 2
\* Grid point of the largest move size the compression tuner may set
\* (max_translation_move=0.2, max_rotation_move=0.2).
max_translation_move == 2
\* Top of the amplitude grid.
MaxAmplitude == 3
\* Period of the equilibration tuner (Periodic(100)).
EquilTunePeriod == 2
\* Steps the equilibration tuner stays active (Before(sim.timestep + 5000)).
TuneSteps == 3
\* Steps of the equilibration run (sim.run(200e3)).
EquilSteps == 6
\* Grid points of the move size in the synthetic tuning test.
SynthGrid == 8
\* Tolerance of the synthetic tuning test, in grid points.
Tolerance == 1
\* Period of the trajectory writer of the equilibration run (Periodic(1000)).
WritePeriod == 3
\* Largest particle count of a lattice.
MaxLatticeN == 9
\* Largest particle diameter of a lattice, in whole length units.
MaxDiameter == 2
\* Largest spherocylinder length of a lattice, in whole length units.
MaxLength == 5
\* Largest number of frames of a movie.
MaxFrames == 3
\* Sites of the periodic row of particles on which single trial moves are made.
RowSites == 4
\* Largest number of trial moves between two resets of the counters.
MaxAttempts == 3

\* The lattice spacing is 1.1 particle diameters: SpacingNum / SpacingDen.
SpacingNum == 11
SpacingDen == 10

Drivers == {"sphere", "compress", "walkthrough"}
\* A target box that is not computed yet.
Unset == 0 - 1
\* A step budget that is never exhausted: the loop driven indefinitely.  Of such
\* a run only the cadence of the time step is kept.
NoBudget == 0 - 1
Budgets == {0, RunSteps, MaxBudget, NoBudget}
RhoStars == 0..(RhoScale + 1)
\* Time steps random.gsd may hold: of a system written without a run, of the
\* randomization run, and of a randomization run longer than the budget.
StartTimesteps == {0, RandomizeSteps, MaxBudget + RunSteps}
\* Move sizes a newly made integrator may have.
InitialMoveSizes == 1..max_translation_move

VARIABLES
    pc,             \* position of the driver
    driver,         \* which of the three compression drivers runs
    N_particles,    \* sim.state.N_particles
    rho_star,       \* params['rho_star'] / rho_star, in units of 1/RhoScale
    budget,         \* the step budget of the while loop (5e4, 1e6), or NoBudget
    initial_box,    \* volume of the box read from random.gsd
    t0,             \* sim.timestep read from random.gsd
    box,            \* volume of the live box sim.state.box
    final_box,      \* volume of the target box (Unset before it is computed)
    overlaps,       \* mc.overlaps: number of overlapping pairs
    complete,       \* compress.complete
    timestep,       \* sim.timestep
    steps_left,     \* steps remaining of the current sim.run call
    phase,          \* within a time step: "tune", "update" or "integrate"
    accepted,       \* accepted trial moves since the last counter reset
    rejected,       \* rejected trial moves since the last counter reset
    error,          \* the exception that ended the run ("none" if none)
    compressed_gsd, \* whether compressed.gsd has been written
    d,              \* mc.d: the trial move size, a point of the amplitude grid
    before,         \* the value of the Before trigger of the equilibration tuner
    optimum,        \* synthetic acceptance model: the move size giving the target
    params_D,       \* params['D'] / D: diameter of the particle
    params_L,       \* params['L'] / L: length of the spherocylinder axis
    snapshot,       \* the gsd.hoomd.Snapshot that initialize builds
    trajectory,     \* trajectory.gsd: the time steps of its frames, in file order
    runs,           \* sim.run(1000) calls the driver loop has made
    log,            \* the reads and writes of the GSD files, in order
    frames,         \* render_movie: the frames argument
    is_solid,       \* render_movie: the is_solid argument
    im0,            \* render_movie: the image of the first frame
    ims,            \* render_movie: the list of the images after the first
    gif,            \* render_movie: the images saved, in order
    position,       \* trial moves: the site of every particle
    orientation,    \* trial moves: the orientation of every particle
    attempts        \* trial moves attempted since the counters were reset

vars == <<pc, driver, N_particles, rho_star, budget, initial_box, t0, box,
          final_box, overlaps, complete, timestep, steps_left, phase,
          accepted, rejected, error, compressed_gsd, d, before, optimum,
          params_D, params_L, snapshot, trajectory, runs, log, frames,
          is_solid, im0, ims, gif, position, orientation, attempts>>

inputs == <<driver, N_particles, rho_star, budget, initial_box, t0, optimum,
            params_D, params_L>>

\* The arguments and the images of render_movie.
movie == <<frames, is_solid, im0, ims, gif>>

\* The particles as single trial moves see them.
particles == <<position, orientation, attempts>>

\* The state the simulation stages do not look at: the lattice snapshot, the
\* movie and the single particles.
offline == <<snapshot, movie, particles>>

\* The state of the simulation and of the objects attached to it.
simulation == <<box, final_box, overlaps, complete, timestep, steps_left,
                phase, accepted, rejected, compressed_gsd, d, before,
                trajectory, runs>>

\* ------------------------------------------------------------ helpers
\* hoomd.trigger.Periodic(period): True on the time steps that are multiples
\* of the period.
Periodic(period, t) == t % period = 0

\* Mutant of FirstPhase: the tuner and the updater act on every time step.
FirstPhaseEveryStep(t) == "tune"

\* The first phase of time step t: the tuner and the updater act only on the
\* time steps at which their trigger returns True.
FirstPhase(t) == IF Periodic(TriggerPeriod, t) THEN "tune" ELSE "integrate"

\* Hard-sphere notebook: final_box.volume = N * V_particle / final_packing_fraction.
SphereFinalVolume(N) == (N * V_particle * RhoScale) \div final_packing_fraction

\* compress(params): rho = rho_c * rho_star; box_V = N / rho.  Only called with
\* rho_star # 0 (a zero rho raises ZeroDivisionError before).
box_V(N, r) == (N * inv_rho_c * RhoScale) \div r

\* The target is invalid when the reduced density is outside (0, 1].
InvalidTarget(r) == r <= 0 \/ r > RhoScale


\* -------------------------------------------------- the initial lattice
\* Lengths of the lattice are integers in units of 1 / LengthUnit, so that
\* half a lattice spacing is a whole number.
LengthUnit == 2 * SpacingDen

\* Mutant of Spacing: the particles are placed a little closer than a diameter.
SpacingTooClose(D) == (D * LengthUnit * SpacingDen) \div SpacingNum

\* spacing = 1.1 (hard spheres, whose diameter is 1); spacing = D * 1.1
Spacing(D) == (D * LengthUnit * SpacingNum) \div SpacingDen

\* Particles are placed on a KxKxK simple cubic lattice (hard spheres) or on a
\* KxK square lattice in the plane z = 0 (spherocylinders).
Dimensions(drv) == IF drv = "sphere" THEN 3 ELSE 2

\* Mutant of CeilRoot: the root rounded down.
FloorRoot(N, p) == CHOOSE K \in 0..N : K^p <= N /\ (K + 1)^p > N

\* math.ceil(N ** (1/p)): the least K with K^p >= N.
CeilRoot(N, p) == CHOOSE K \in 0..N : K^p >= N /\ \A J \in 0..(K - 1) : J^p < N

\* numpy.linspace(start, stop, num, endpoint=False)
linspace(start, stop, num) ==
    [i \in 1..num |-> start + ((i - 1) * (stop - start)) \div num]

\* itertools.product(x, repeat=dim): element n (from 0) in lexicographic
\* order, the last coordinate running fastest.
ProductElement(x, dim, n) ==
    [a \in 1..dim |-> x[((n \div (Len(x)^(dim - a))) % Len(x)) + 1]]

\* list(itertools.product(x, repeat=dim))
product(x, dim) == [n \in 1..(Len(x)^dim) |-> ProductElement(x, dim, n - 1)]

\* list[0:N]
Slice(list, N) == SubSeq(list, 1, IF N < Len(list) THEN N ELSE Len(list))

\* A position of the snapshot: the sites of the square lattice get z = 0
\* (numpy.zeros(shape=(N, 3)); position[:,0:2] = position_2d).
Position3(site) == [a \in 1..3 |-> IF a <= Len(site) THEN site[a] ELSE 0]

\* snapshot.configuration.box[2]: L (hard spheres), 2*(params['L'] +
\* params['D']) (initialize(params)), 2.0*(box_L + D) (walkthrough).
BoxHeight(drv, box_L, D, L) ==
    IF drv = "sphere" THEN box_L
    ELSE IF drv = "compress" THEN 2 * (L + D) * LengthUnit
    ELSE 2 * (box_L + D * LengthUnit)

\* The snapshot written to lattice.gsd.
Lattice(drv, N, D, L) ==
    LET K == CeilRoot(N, Dimensions(drv))
        box_L == K * Spacing(D)
        x == linspace(0 - (box_L \div 2), box_L \div 2, K)
        sites == Slice(product(x, Dimensions(drv)), N)
    IN  [N |-> N,
         K |-> K,
         position |-> [n \in 1..Len(sites) |-> Position3(sites[n])],
         box |-> <<box_L, box_L, BoxHeight(drv, box_L, D, L)>>]

\* No snapshot: the simulation stages do not build one.
NoSnapshot == [N |-> 0, K |-> 0, position |-> <<>>, box |-> <<0, 0, 0>>]

\* Minimum-image distance of two coordinates in a periodic box of length len.
MinImage(a, b, len) ==
    LET delta == (IF a < b THEN b - a ELSE a - b) % len
    IN  IF 2 * delta > len THEN len - delta ELSE delta

\* Squared minimum-image distance of two positions.
Distance2(p, q, bx) ==
    MinImage(p[1], q[1], bx[1])^2 + MinImage(p[2], q[2], bx[2])^2
        + MinImage(p[3], q[3], bx[3])^2

\* Two particles of the lattice overlap: their axes are parallel and at the same
\* height, so they are as far apart as their centres.
PairOverlaps(snap, D, i, j) ==
    Distance2(snap.position[i], snap.position[j], snap.box) < (D * LengthUnit)^2

\* A particle overlaps one of its own periodic images: the box is shorter than
\* the particle, which is D across and L + D along z.
ImageOverlaps(snap, D, L) ==
    \/ snap.box[1] < D * LengthUnit
    \/ snap.box[2] < D * LengthUnit
    \/ snap.box[3] < (L + D) * LengthUnit

\* mc.overlaps > 0 for the snapshot.
HasOverlaps(snap, D, L) ==
    \/ snap.N > 0 /\ ImageOverlaps(snap, D, L)
    \/ \E i, j \in 1..Len(snap.position) : i < j /\ PairOverlaps(snap, D, i, j)

\* -x/2 <= coordinate < x/2 along every axis of the box.
InsideBox(p, bx) == \A a \in 1..3 : 0 - bx[a] <= 2 * p[a] /\ 2 * p[a] < bx[a]

\* The reads and writes of the GSD files by run_simulation, in the order of
\* initialize, randomize, compress and equilibrate.
FileOrder == <<"write lattice.gsd", "read lattice.gsd", "write random.gsd",
               "read random.gsd", "write compressed.gsd",
               "read compressed.gsd">>

\* No particle is looked at one by one.
NoParticles == position = <<>> /\ orientation = <<>> /\ attempts = 0

\* An image: the frame rendered and the mask it was rendered with.
\* No image is rendered yet.
NoImage == [frame |-> 0 - 1, mask |-> "None"]

\* The white image that ends the movie.
Blank == [frame |-> 0, mask |-> "blank"]

\* Masks a frame may be rendered with: None (no mask), or an array that marks
\* all, none or some of the particles as solid.
Masks == {"None", "solid", "liquid", "mixed"}

\* render(frame, particles, is_solid): the image of the frame, coloured by the
\* mask.
render(frame, mask) == [frame |-> frame, mask |-> mask]

\* render_movie is not called.
NoMovie ==
    /\ frames = <<>>
    /\ is_solid = <<>>
    /\ im0 = NoImage
    /\ ims = <<>>
    /\ gif = <<>>

\* ---------------------------------------------------------------- Init
\* The state after create_state_from_gsd('random.gsd'): a dilute box without
\* overlaps, the time step of the randomization run, nothing attached yet.
Init ==
    /\ pc = "setup"
    /\ driver \in Drivers
    /\ N_particles \in 0..MaxN
    /\ rho_star \in (IF driver = "sphere" THEN {final_packing_fraction} ELSE RhoStars)
    /\ budget \in Budgets
    /\ t0 \in StartTimesteps
    /\ initial_box = N_particles * InitVolume
    /\ box = initial_box
    /\ final_box = Unset
    /\ overlaps = 0
    /\ complete = FALSE
    /\ timestep = t0
    /\ steps_left = 0
    /\ phase = "idle"
    /\ accepted = 0
    /\ rejected = 0
    /\ error = "none"
    /\ compressed_gsd = FALSE
    /\ d \in InitialMoveSizes
    /\ before = Unset
    /\ optimum = Unset
    /\ params_D = 1
    /\ params_L = (IF driver = "sphere" THEN 0 ELSE 1)
    /\ snapshot = NoSnapshot
    /\ trajectory = <<>>
    /\ runs = 0
    /\ log = SubSeq(FileOrder, 1, 4)
    /\ NoMovie
    /\ NoParticles

\* ------------------------------------------------------------- set up
\* Mutant of Setup: the target volume is set on the live box itself instead
\* of on a copy of it.
SetupOnLiveBox ==
    /\ pc = "setup"
    /\ IF driver = "sphere"
         THEN /\ final_box' = SphereFinalVolume(N_particles)
              /\ box' = final_box'
              /\ pc' = "loop"
              /\ error' = error
         ELSE IF rho_star = 0
                THEN /\ pc' = "error"
                     /\ error' = "ZeroDivisionError"
                     /\ UNCHANGED <<final_box, box>>
                ELSE /\ final_box' = box_V(N_particles, rho_star)
                     /\ box' = final_box'
                     /\ pc' = "loop"
                     /\ error' = error
    /\ UNCHANGED <<inputs, offline, trajectory, runs, log, overlaps, complete,
                   timestep, steps_left, phase, accepted, rejected,
                   compressed_gsd, d, before>>

\* The target box is computed and the updater and the tuner are attached.
\* The hard-sphere notebook sets the volume of a copy of the initial box; the
\* spherocylinder drivers build a cube of volume N / (rho_c * rho_star), which
\* raises ZeroDivisionError for rho_star = 0 and checks nothing else.
Setup ==
    /\ pc = "setup"
    /\ IF driver = "sphere"
         THEN /\ final_box' = SphereFinalVolume(N_particles)
              /\ pc' = "loop"
              /\ error' = error
         ELSE IF rho_star = 0
                THEN /\ pc' = "error"
                     /\ error' = "ZeroDivisionError"
                     /\ final_box' = final_box
                ELSE /\ final_box' = box_V(N_particles, rho_star)
                     /\ pc' = "loop"
                     /\ error' = error
    /\ UNCHANGED <<inputs, offline, trajectory, runs, log, box, overlaps, complete, timestep, steps_left,
                   phase, accepted, rejected, compressed_gsd, d,
                   before>>

\* ------------------------------------------------------- driver loop
\* Mutant of WithinBudget: the budget test off by one.
WithinBudgetInclusive(t, b) == b = NoBudget \/ t <= b

\* sim.timestep < budget
WithinBudget(t, b) == b = NoBudget \/ t < b

\* while not compress.complete and sim.timestep < budget: sim.run(1000)
\* Without the failure check of the other two drivers, the walkthrough goes on
\* to write compressed.gsd when the loop is left.
While ==
    /\ pc = "loop"
    /\ IF ~complete /\ WithinBudget(timestep, budget)
         THEN /\ pc' = "run"
              /\ steps_left' = RunSteps
              /\ phase' = FirstPhase(timestep)
              /\ runs' = (IF budget = NoBudget THEN runs ELSE runs + 1)
         ELSE /\ pc' = (IF driver = "walkthrough" THEN "write" ELSE "check")
              /\ UNCHANGED <<steps_left, phase, runs>>
    /\ UNCHANGED <<inputs, offline, trajectory, log, box, final_box, overlaps, complete, timestep,
                   accepted, rejected, error, compressed_gsd, d,
                   before>>

\* Mutant of FailureCheck: the failure is decided by the exhausted budget
\* instead of by compress.complete.
FailureCheckOnBudget ==
    /\ pc = "check"
    /\ IF ~WithinBudget(timestep, budget)
         THEN pc' = "failed" /\ error' = "RuntimeError"
         ELSE pc' = "write" /\ error' = error
    /\ UNCHANGED <<inputs, offline, trajectory, runs, log, box, final_box,
                   overlaps, complete, timestep, steps_left, phase, accepted,
                   rejected, compressed_gsd, d, before>>

\* if not compress.complete: raise RuntimeError("Compression failed to complete")
\* (compress(params) and the hard-sphere notebook; the walkthrough has no such
\* statement).
FailureCheck ==
    /\ pc = "check"
    /\ IF ~complete
         THEN pc' = "failed" /\ error' = "RuntimeError"
         ELSE pc' = "write" /\ error' = error
    /\ UNCHANGED <<inputs, offline, trajectory, runs, log, box, final_box, overlaps, complete, timestep,
                   steps_left, phase, accepted, rejected, compressed_gsd, d,
                   before>>

\* hoomd.write.GSD.write(state=sim.state, filename='compressed.gsd')
WriteCompressed ==
    /\ pc = "write"
    /\ compressed_gsd' = TRUE
    /\ log' = Append(log, "write compressed.gsd")
    /\ pc' = "written"
    /\ UNCHANGED <<inputs, offline, trajectory, runs, box, final_box, overlaps, complete, timestep,
                   steps_left, phase, accepted, rejected, error, d,
                   before>>

\* ------------------------------------------------- the MoveSize tuner
\* The sign of (observed ratio - target ratio), the observed ratio being
\* accepted / (accepted + rejected): positive, zero or negative.
RatioVsTarget(acc, rej) == acc * TargetDen - TargetNum * (acc + rej)

\* Mutant of ScaleShift: the direction of the rescale is reversed.
ScaleShiftReversed(acc, rej) ==
    IF acc + rej = 0 THEN 0
    ELSE IF RatioVsTarget(acc, rej) > 0 THEN 0 - 1
    ELSE IF RatioVsTarget(acc, rej) < 0 THEN 1
    ELSE 0

\* Mutant of ScaleShift: a window without attempted moves is not skipped, its
\* ratio is taken to be 0.
ScaleShiftOfEmptyWindow(acc, rej) ==
    IF RatioVsTarget(acc, rej) > 0 THEN 1
    ELSE IF RatioVsTarget(acc, rej) < 0 \/ acc + rej = 0 THEN 0 - 1
    ELSE 0

\* Mutant of ScaleShift: the update is not damped, it overshoots by three grid
\* points in the direction of the rescale.
ScaleShiftOvershooting(acc, rej) ==
    IF acc + rej = 0 THEN 0
    ELSE IF RatioVsTarget(acc, rej) > 0 THEN 3
    ELSE IF RatioVsTarget(acc, rej) < 0 THEN 0 - 3
    ELSE 0

\* The scale factor of one evaluation, as a shift on the amplitude grid: a
\* factor > 1 (one point up) when the observed ratio is above the target, a
\* factor < 1 (one point down) when it is below, no change when they are
\* equal; a window without attempted moves is skipped.  The update is damped:
\* one grid point per evaluation.
ScaleShift(acc, rej) ==
    IF acc + rej = 0 THEN 0
    ELSE IF RatioVsTarget(acc, rej) > 0 THEN 1
    ELSE IF RatioVsTarget(acc, rej) < 0 THEN 0 - 1
    ELSE 0

\* The scaled move size, before it is clamped.  The product of a positive
\* amplitude and a positive factor is positive: it is held at the lowest point
\* of the grid.
Scaled(x, shift) == IF x + shift < 1 THEN 1 ELSE x + shift

\* Mutant of Clamp: the maximum is not applied.
Unclamped(x, max) == x

\* The move size clamped to its configured maximum.
Clamp(x, max) == IF x > max THEN max ELSE x

\* The move size after one tuning evaluation.
Tuned(x, acc, rej, max) == Clamp(Scaled(x, ScaleShift(acc, rej)), max)

\* Mutant of TunerEval: the counters are not reset, the next window goes on
\* from them.
TunerEvalKeepingCounters ==
    /\ pc = "run"
    /\ steps_left > 0
    /\ phase = "tune"
    /\ d' = Tuned(d, accepted, rejected, max_translation_move)
    /\ phase' = "update"
    /\ UNCHANGED <<pc, inputs, offline, trajectory, runs, log, box, final_box, overlaps, complete, timestep,
                   steps_left, error, compressed_gsd, before, accepted,
                   rejected>>

\* One tuning evaluation (trigger Periodic(10) during compression): the move
\* size is rescaled from the window of accepted / rejected moves, the window
\* is consumed and the counters start again at 0.
TunerEval ==
    /\ pc = "run"
    /\ steps_left > 0
    /\ phase = "tune"
    /\ d' = Tuned(d, accepted, rejected, max_translation_move)
    /\ accepted' = 0
    /\ rejected' = 0
    /\ phase' = "update"
    /\ UNCHANGED <<pc, inputs, offline, trajectory, runs, log, box, final_box, overlaps, complete, timestep,
                   steps_left, error, compressed_gsd, before>>

\* -------------------------------------------- the QuickCompress updater
\* Mutant of IsComplete: the overlap count is not looked at.
IsCompleteIgnoringOverlaps(b, target, n_overlaps) == b = target

\* Mutant of IsComplete: a box without volume is never complete.
IsCompleteNeedingVolume(b, target, n_overlaps) ==
    b = target /\ n_overlaps = 0 /\ b > 0

\* The compression is complete when the box is the target box and no two
\* particles overlap.
IsComplete(b, target, n_overlaps) == b = target /\ n_overlaps = 0

\* Mutant of ShrinkCandidates: the scaled volume is not held at the target.
ShrinkPastTarget(v, t) == (t - 1)..(v - 1)

\* Mutant of ShrinkCandidates: the candidate stays strictly between the current
\* and the target volume, so the target itself is never taken.
ShrinkStrictlyBetween(v, t) == IF t + 1 < v THEN (t + 1)..(v - 1) ELSE {v}

\* Volumes a shrink of box v towards target t (t < v) may produce: the volume
\* is reduced by a scale factor, never past the target.
ShrinkCandidates(v, t) == t..(v - 1)

\* Mutant of ExpandCandidates: the expansion is not held at the target.
ExpandPastTarget(v, t) == (v + 1)..(t + 1)

\* Volumes an expansion of box v towards target t (v < t) may produce.
ExpandCandidates(v, t) == (v + 1)..t

\* Candidate boxes of one rescale from v towards t.
Candidates(v, t) == IF t < v THEN ShrinkCandidates(v, t) ELSE ExpandCandidates(v, t)

\* Overlapping pairs a rescale from v to w may leave: a shrink allows slight
\* overlaps between the particles, an expansion creates none.
NewOverlaps(N, v, w) == IF w < v /\ N > 0 THEN 0..MaxOverlaps ELSE {0}

\* Mutant of MayRescale: the updater does not wait for the overlaps to go.
MayRescaleWithOverlaps(b, target, n_overlaps) == b # target

\* Whether the updater rescales the box on this tick: it waits for the trial
\* moves to remove the overlaps before it reduces the volume again.
MayRescale(b, target, n_overlaps) == n_overlaps = 0 /\ b # target

\* Mutant of QuickCompress: complete is a one-shot signal, true only on the
\* tick that arrives at the target box.
QuickCompressOneShot ==
    /\ pc = "run"
    /\ steps_left > 0
    /\ phase = "update"
    /\ IF MayRescale(box, final_box, overlaps)
         THEN \E w \in Candidates(box, final_box) :
                \E o \in NewOverlaps(N_particles, box, w) :
                    /\ box' = w
                    /\ overlaps' = o
         ELSE UNCHANGED <<box, overlaps>>
    /\ complete' = (box' # box /\ IsComplete(box', final_box, overlaps'))
    /\ phase' = "integrate"
    /\ UNCHANGED <<pc, inputs, offline, trajectory, runs, log, final_box, timestep, steps_left, accepted,
                   rejected, error, compressed_gsd, d,
                   before>>

\* One trigger tick of the updater (the compression check).
QuickCompress ==
    /\ pc = "run"
    /\ steps_left > 0
    /\ phase = "update"
    /\ IF MayRescale(box, final_box, overlaps)
         THEN \E w \in Candidates(box, final_box) :
                \E o \in NewOverlaps(N_particles, box, w) :
                    /\ box' = w
                    /\ overlaps' = o
         ELSE UNCHANGED <<box, overlaps>>
    /\ complete' = IsComplete(box', final_box, overlaps')
    /\ phase' = "integrate"
    /\ UNCHANGED <<pc, inputs, offline, trajectory, runs, log, final_box, timestep, steps_left, accepted,
                   rejected, error, compressed_gsd, d,
                   before>>

\* ------------------------------------------------------- trial moves
\* Mutant of AfterMoves: a move is accepted although its shape overlaps.
AfterMovesAcceptingOverlaps(n_overlaps, k) == 0..MaxOverlaps

\* Mutant of AfterMoves: an accepted move may bring its shape into overlap
\* with another particle.
AfterMovesIntoOverlap(n_overlaps, k) ==
    IF k = 0 THEN {n_overlaps} ELSE 0..MaxOverlaps

\* Overlap counts the trial moves of one time step may leave when k of them
\* are accepted: an accepted move overlaps no other particle, so it creates no
\* overlap and may remove some; a rejected move changes nothing.
AfterMoves(n_overlaps, k) == IF k = 0 THEN {n_overlaps} ELSE 0..n_overlaps

\* The time step that follows t; of a run without budget only the cadence is
\* kept (the time step modulo a multiple of the trigger period).
NextTimestep(t, b) ==
    IF b = NoBudget THEN (t + 1) % (TriggerPeriod * RunSteps) ELSE t + 1

\* Mutant of TrialMoves: the box is rescaled while the trial moves of the time
\* step are made.
TrialMovesStraddlingRescale ==
    /\ pc = "run"
    /\ steps_left > 0
    /\ phase = "integrate"
    /\ \E k \in 0..N_particles :
         /\ accepted' = accepted + k
         /\ rejected' = rejected + (N_particles - k)
         /\ overlaps' \in AfterMoves(overlaps, k)
    /\ IF MayRescale(box, final_box, overlaps)
         THEN box' \in Candidates(box, final_box)
         ELSE box' = box
    /\ timestep' = NextTimestep(timestep, budget)
    /\ steps_left' = steps_left - 1
    /\ IF steps_left = 1
         THEN pc' = "loop" /\ phase' = "idle"
         ELSE pc' = pc /\ phase' = FirstPhase(timestep')
    /\ UNCHANGED <<inputs, offline, trajectory, runs, log, final_box, complete, error, compressed_gsd, d,
                   before>>

\* One time step of the integrator: one trial move per particle, each accepted
\* or rejected; then the time step advances, and sim.run returns to the driver
\* after its last step.
TrialMoves ==
    /\ pc = "run"
    /\ steps_left > 0
    /\ phase = "integrate"
    /\ \E k \in 0..N_particles :
         /\ accepted' = accepted + k
         /\ rejected' = rejected + (N_particles - k)
         /\ overlaps' \in AfterMoves(overlaps, k)
    /\ timestep' = NextTimestep(timestep, budget)
    /\ steps_left' = steps_left - 1
    /\ IF steps_left = 1
         THEN pc' = "loop" /\ phase' = "idle"
         ELSE pc' = pc /\ phase' = FirstPhase(timestep')
    /\ UNCHANGED <<inputs, offline, trajectory, runs, log, box, final_box, complete, error, compressed_gsd, d,
                   before>>

\* ------------------------------------------------------ equilibration
\* Mutant of EquilTrigger: the Before trigger is left out.
EquilTriggerPeriodicOnly(t, b) == Periodic(EquilTunePeriod, t)

\* hoomd.trigger.And([Periodic(100), Before(b)]): Before returns True for all
\* time steps t < b.
EquilTrigger(t, b) == Periodic(EquilTunePeriod, t) /\ t < b

\* The first phase of time step t of the equilibration run (no updater).
EquilFirstPhase(t, b) == IF EquilTrigger(t, b) THEN "tune" ELSE "integrate"

\* equilibrate(params) up to sim.run(200e3): a new simulation with a new
\* integrator reads compressed.gsd, the writer of trajectory.gsd is attached
\* with the trigger Periodic(1000) and mode 'wb' (the file starts empty), and
\* the tuner is attached with the trigger
\* And([Periodic(100), Before(sim.timestep + 5000)]).
StartEquilibration ==
    /\ pc = "written"
    /\ compressed_gsd
    /\ pc' = "equilibrate"
    /\ before' = timestep + TuneSteps
    /\ steps_left' = EquilSteps
    /\ phase' = EquilFirstPhase(timestep, before')
    /\ d' \in InitialMoveSizes
    /\ accepted' = 0
    /\ rejected' = 0
    /\ log' = Append(log, "read compressed.gsd")
    /\ trajectory' = <<>>
    /\ UNCHANGED <<inputs, offline, runs, box, final_box, overlaps, complete, timestep,
                   error, compressed_gsd>>

\* One evaluation of the equilibration tuner (no maximum is configured: the
\* move size is held at the top of the grid).
EquilibrateTune ==
    /\ pc = "equilibrate"
    /\ steps_left > 0
    /\ phase = "tune"
    /\ d' = Tuned(d, accepted, rejected, MaxAmplitude)
    /\ accepted' = 0
    /\ rejected' = 0
    /\ phase' = "integrate"
    /\ UNCHANGED <<pc, inputs, offline, trajectory, runs, log, box, final_box, overlaps, complete, timestep,
                   steps_left, error, compressed_gsd, before>>

\* Mutant of Written: a frame at every time step.
WrittenEveryStep(traj, t) == Append(traj, t)

\* The writer of trajectory.gsd, run when the time step has advanced to t: it
\* appends a frame when its trigger Periodic(1000) returns True.
Written(traj, t) == IF Periodic(WritePeriod, t) THEN Append(traj, t) ELSE traj

\* One time step of the equilibration run: trial moves, then the writer.
EquilibrateMoves ==
    /\ pc = "equilibrate"
    /\ steps_left > 0
    /\ phase = "integrate"
    /\ \E k \in 0..N_particles :
         /\ accepted' = accepted + k
         /\ rejected' = rejected + (N_particles - k)
         /\ overlaps' \in AfterMoves(overlaps, k)
    /\ timestep' = timestep + 1
    /\ steps_left' = steps_left - 1
    /\ IF steps_left = 1
         THEN pc' = "done" /\ phase' = "idle"
         ELSE pc' = pc /\ phase' = EquilFirstPhase(timestep', before)
    /\ trajectory' = Written(trajectory, timestep')
    /\ UNCHANGED <<inputs, offline, runs, log, box, final_box, complete, error, compressed_gsd, d,
                   before>>

\* ------------------------------------------------------ randomization
\* The state when run_simulation(params) is called: no file is written and
\* no simulation exists; the values of the simulation variables are those the
\* lattice will have when randomize reads it.
WorkflowInit ==
    /\ pc = "initialize"
    /\ driver \in Drivers
    /\ N_particles \in 0..MaxN
    /\ rho_star \in (IF driver = "sphere" THEN {final_packing_fraction} ELSE RhoStars)
    /\ budget \in Budgets
    /\ t0 = RandomizeSteps
    /\ initial_box = N_particles * InitVolume
    /\ box = initial_box
    /\ final_box = Unset
    /\ overlaps = 0
    /\ complete = FALSE
    /\ timestep = 0
    /\ steps_left = 0
    /\ phase = "idle"
    /\ accepted = 0
    /\ rejected = 0
    /\ error = "none"
    /\ compressed_gsd = FALSE
    /\ d \in InitialMoveSizes
    /\ before = Unset
    /\ optimum = Unset
    /\ params_D = 1
    /\ params_L = (IF driver = "sphere" THEN 0 ELSE 1)
    /\ snapshot = NoSnapshot
    /\ trajectory = <<>>
    /\ runs = 0
    /\ log = <<>>
    /\ NoMovie
    /\ NoParticles

\* initialize(params) and the lattice cells of the notebooks: the snapshot is
\* built and written to lattice.gsd.
Initialize ==
    /\ pc = "initialize"
    /\ snapshot' = Lattice(driver, N_particles, params_D, params_L)
    /\ log' = Append(log, "write lattice.gsd")
    /\ pc' = "initialized"
    /\ UNCHANGED <<inputs, simulation, error, movie, particles>>

\* randomize(params) up to sim.run(10e3): a new simulation reads lattice.gsd.
StartRandomize ==
    /\ pc = "initialized"
    /\ log' = Append(log, "read lattice.gsd")
    /\ pc' = "randomize"
    /\ timestep' = 0
    /\ steps_left' = RandomizeSteps
    /\ phase' = "integrate"
    /\ accepted' = 0
    /\ rejected' = 0
    /\ UNCHANGED <<inputs, offline, trajectory, runs, box, final_box, overlaps,
                   complete, error, compressed_gsd, d, before>>

\* One time step of the randomization run: trial moves only, no updater and
\* no tuner.
RandomizeMoves ==
    /\ pc = "randomize"
    /\ steps_left > 0
    /\ \E k \in 0..N_particles :
         /\ accepted' = accepted + k
         /\ rejected' = rejected + (N_particles - k)
         /\ overlaps' \in AfterMoves(overlaps, k)
    /\ timestep' = timestep + 1
    /\ steps_left' = steps_left - 1
    /\ UNCHANGED <<pc, inputs, offline, trajectory, runs, log, box, final_box, complete, phase, error,
                   compressed_gsd, d, before>>

\* hoomd.write.GSD.write(state=sim.state, filename='random.gsd')
WriteRandom ==
    /\ pc = "randomize"
    /\ steps_left = 0
    /\ log' = Append(log, "write random.gsd")
    /\ pc' = "randomized"
    /\ phase' = "idle"
    /\ UNCHANGED <<inputs, offline, trajectory, runs, box, final_box, overlaps,
                   complete, timestep, steps_left, accepted, rejected, error,
                   compressed_gsd, d, before>>

\* Mutant of StartCompression: the compression stage reads lattice.gsd.
StartCompressionFromLattice ==
    /\ pc = "randomized"
    /\ log' = Append(log, "read lattice.gsd")
    /\ pc' = "setup"
    /\ accepted' = 0
    /\ rejected' = 0
    /\ UNCHANGED <<inputs, offline, trajectory, runs, box, final_box, overlaps,
                   complete, timestep, steps_left, phase, error,
                   compressed_gsd, d, before>>

\* The compression stage up to the computation of the target: a new
\* simulation with a new integrator reads random.gsd.
StartCompression ==
    /\ pc = "randomized"
    /\ log' = Append(log, "read random.gsd")
    /\ pc' = "setup"
    /\ accepted' = 0
    /\ rejected' = 0
    /\ UNCHANGED <<inputs, offline, trajectory, runs, box, final_box, overlaps,
                   complete, timestep, steps_left, phase, error,
                   compressed_gsd, d, before>>

\* ------------------------------------------- the synthetic tuning test
\* The tuner run against a synthetic move-acceptance model: of SynthAttempts
\* moves per window the model accepts a number that falls by one with every
\* grid point of the move size and is the target ratio at the move size opt.
SynthAttempts == TargetDen * SynthGrid

SynthAccepted(x, opt) == TargetNum * SynthGrid + (opt - x)

\* Windows the synthetic test runs.
SynthWindows == SynthGrid + 2

\* The test starts from any move size of the grid, against any optimum of the
\* grid; timestep counts the tuning windows.
SyntheticInit ==
    /\ pc = "synthetic"
    /\ d \in 1..SynthGrid
    /\ optimum \in 1..SynthGrid
    /\ driver = "sphere"
    /\ N_particles = 0
    /\ rho_star = final_packing_fraction
    /\ budget = NoBudget
    /\ t0 = 0
    /\ initial_box = 0
    /\ box = 0
    /\ final_box = Unset
    /\ overlaps = 0
    /\ complete = FALSE
    /\ timestep = 0
    /\ steps_left = 0
    /\ phase = "integrate"
    /\ accepted = 0
    /\ rejected = 0
    /\ error = "none"
    /\ compressed_gsd = FALSE
    /\ before = Unset
    /\ params_D = 1
    /\ params_L = 0
    /\ snapshot = NoSnapshot
    /\ trajectory = <<>>
    /\ runs = 0
    /\ log = <<>>
    /\ NoMovie
    /\ NoParticles

\* One window of trial moves under the acceptance model.
SyntheticWindow ==
    /\ pc = "synthetic"
    /\ phase = "integrate"
    /\ timestep < SynthWindows
    /\ accepted' = SynthAccepted(d, optimum)
    /\ rejected' = SynthAttempts - SynthAccepted(d, optimum)
    /\ phase' = "tune"
    /\ UNCHANGED <<pc, inputs, offline, trajectory, runs, log, box, final_box, overlaps, complete, timestep,
                   steps_left, error, compressed_gsd, d, before>>

\* The tuning evaluation that ends the window.
SyntheticTune ==
    /\ pc = "synthetic"
    /\ phase = "tune"
    /\ d' = Tuned(d, accepted, rejected, SynthGrid)
    /\ accepted' = 0
    /\ rejected' = 0
    /\ timestep' = timestep + 1
    /\ phase' = "integrate"
    /\ UNCHANGED <<pc, inputs, offline, trajectory, runs, log, box, final_box, overlaps, complete,
                   steps_left, error, compressed_gsd, before>>

SyntheticNext ==
    \/ SyntheticWindow
    \/ SyntheticTune

SyntheticSpec == SyntheticInit /\ [][SyntheticNext]_vars

\* ------------------------------------------------------ specifications
Next ==
    \/ Setup
    \/ While
    \/ FailureCheck
    \/ WriteCompressed
    \/ TunerEval
    \/ QuickCompress
    \/ TrialMoves
    \/ StartEquilibration
    \/ EquilibrateTune
    \/ EquilibrateMoves

Spec == Init /\ [][Next]_vars

\* The workflow from the randomization stage on.
WorkflowNext ==
    \/ Initialize
    \/ StartRandomize
    \/ RandomizeMoves
    \/ WriteRandom
    \/ StartCompression
    \/ Next

WorkflowSpec == WorkflowInit /\ [][WorkflowNext]_vars

\* Trial moves that remove an overlap.
ResolvingMoves == TrialMoves /\ overlaps' < overlaps

\* The run with the fairness of its scheduling: the driver and the simulation
\* keep taking steps, and trial moves that remove an overlap are strongly fair
\* (whenever overlaps remain time and again, such a move is eventually
\* accepted).  The runs start at time step 0, with a budget of one sim.run
\* call or with a budget that is never exhausted.
FairInit == Init /\ t0 = 0 /\ budget \in {RunSteps, NoBudget}

FairSpec ==
    /\ FairInit
    /\ [][Next]_vars
    /\ WF_vars(Next)
    /\ SF_vars(ResolvingMoves)

\* The runs with a finite step budget, the driver and the simulation taking
\* steps as long as one is enabled.
BudgetInit == Init /\ budget # NoBudget

BudgetSpec ==
    /\ BudgetInit
    /\ [][Next]_vars
    /\ WF_vars(Next)

\* ------------------------------------------------- single trial moves
\* The trial moves of the integrator one by one, on particles in a periodic
\* row of RowSites sites.  A particle across the row (orientation 0) covers
\* its site, a particle along the row (orientation 1) its site and the next.
Shape(x, q) == IF q = 1 THEN {x, (x + 1) % RowSites} ELSE {x}

\* The shape at (x, q) of particle i overlaps another particle.
OverlapsAnother(i, x, q, pos, ori) ==
    \E j \in DOMAIN pos :
        j # i /\ Shape(x, q) \cap Shape(pos[j], ori[j]) # {}

\* The trial moves of a particle at (x, q): a translation by a distance up to
\* the move size in either direction, or a rotation.
Trials(x, q, size) ==
    {<<(x + RowSites + delta) % RowSites, q>> :
        delta \in ((0 - size)..size) \ {0}} \cup {<<x, 1 - q>>}

\* A configuration without overlaps, the counters at zero.
MoveInit ==
    /\ pc = "moves"
    /\ driver = "compress"
    /\ N_particles \in 1..MaxN
    /\ position \in [1..N_particles -> 0..(RowSites - 1)]
    /\ orientation \in [1..N_particles -> {0, 1}]
    /\ \A i \in 1..N_particles :
           ~OverlapsAnother(i, position[i], orientation[i], position, orientation)
    /\ attempts = 0
    /\ accepted = 0
    /\ rejected = 0
    /\ d \in InitialMoveSizes
    /\ rho_star = final_packing_fraction
    /\ budget = MaxBudget
    /\ t0 = 0
    /\ initial_box = RowSites
    /\ box = initial_box
    /\ final_box = Unset
    /\ overlaps = 0
    /\ complete = FALSE
    /\ timestep = 0
    /\ steps_left = 0
    /\ phase = "integrate"
    /\ error = "none"
    /\ compressed_gsd = FALSE
    /\ before = Unset
    /\ optimum = Unset
    /\ params_D = 1
    /\ params_L = 1
    /\ snapshot = NoSnapshot
    /\ trajectory = <<>>
    /\ runs = 0
    /\ log = <<>>
    /\ NoMovie

\* Mutant of AttemptTrialMove: a rejected trial move is committed as well.
AttemptTrialMoveCommittingRejected ==
    /\ pc = "moves"
    /\ attempts < MaxAttempts
    /\ \E i \in 1..N_particles :
         \E trial \in Trials(position[i], orientation[i], d) :
            /\ IF OverlapsAnother(i, trial[1], trial[2], position, orientation)
                 THEN rejected' = rejected + 1 /\ accepted' = accepted
                 ELSE accepted' = accepted + 1 /\ rejected' = rejected
            /\ position' = [position EXCEPT ![i] = trial[1]]
            /\ orientation' = [orientation EXCEPT ![i] = trial[2]]
    /\ attempts' = attempts + 1
    /\ UNCHANGED <<pc, inputs, snapshot, movie, trajectory, runs, log, box,
                   final_box, overlaps, complete, timestep, steps_left, phase,
                   error, compressed_gsd, d, before>>

\* One trial move of one particle: a trial move whose shape overlaps another
\* particle is rejected and leaves position and orientation unchanged; one
\* whose shape overlaps no other particle is accepted and sets the position or
\* the orientation of the particle to the new value.
AttemptTrialMove ==
    /\ pc = "moves"
    /\ attempts < MaxAttempts
    /\ \E i \in 1..N_particles :
         \E trial \in Trials(position[i], orientation[i], d) :
            IF OverlapsAnother(i, trial[1], trial[2], position, orientation)
              THEN /\ rejected' = rejected + 1
                   /\ UNCHANGED <<accepted, position, orientation>>
              ELSE /\ accepted' = accepted + 1
                   /\ position' = [position EXCEPT ![i] = trial[1]]
                   /\ orientation' = [orientation EXCEPT ![i] = trial[2]]
                   /\ rejected' = rejected
    /\ attempts' = attempts + 1
    /\ UNCHANGED <<pc, inputs, snapshot, movie, trajectory, runs, log, box,
                   final_box, overlaps, complete, timestep, steps_left, phase,
                   error, compressed_gsd, d, before>>

\* The counters are reset (by a tuning evaluation, or by the start of a run).
ResetCounters ==
    /\ pc = "moves"
    /\ attempts > 0
    /\ accepted' = 0
    /\ rejected' = 0
    /\ attempts' = 0
    /\ UNCHANGED <<pc, inputs, snapshot, movie, position, orientation,
                   trajectory, runs, log, box, final_box, overlaps, complete,
                   timestep, steps_left, phase, error, compressed_gsd, d,
                   before>>

MoveNext == AttemptTrialMove \/ ResetCounters

MoveSpec == MoveInit /\ [][MoveNext]_vars

\* ------------------------------------------------------- render_movie
\* render_movie(frames, particles, is_solid) is called with one frame or
\* more and an is_solid of the same length (is_solid=None is the list of
\* None masks).  A frame is its index in the trajectory.
MovieInit ==
    /\ pc = "render_movie"
    /\ \E n \in 1..MaxFrames :
         /\ frames = [j \in 1..n |-> j]
         /\ is_solid \in [1..n -> Masks]
    /\ im0 = NoImage
    /\ ims = <<>>
    /\ gif = <<>>
    /\ NoParticles
    /\ driver = "sphere"
    /\ N_particles = MaxN
    /\ rho_star = final_packing_fraction
    /\ budget = MaxBudget
    /\ t0 = 0
    /\ initial_box = 0
    /\ box = 0
    /\ final_box = Unset
    /\ overlaps = 0
    /\ complete = FALSE
    /\ timestep = 0
    /\ steps_left = 0
    /\ phase = "idle"
    /\ accepted = 0
    /\ rejected = 0
    /\ error = "none"
    /\ compressed_gsd = FALSE
    /\ d = 1
    /\ before = Unset
    /\ optimum = Unset
    /\ params_D = 1
    /\ params_L = 0
    /\ snapshot = NoSnapshot
    /\ trajectory = <<>>
    /\ runs = 0
    /\ log = <<>>

\* a = render(frames[0], particles, is_solid[0]); im0 = ...; ims = []
RenderFirst ==
    /\ pc = "render_movie"
    /\ im0' = render(frames[1], is_solid[1])
    /\ ims' = <<>>
    /\ pc' = "frames"
    /\ UNCHANGED <<inputs, simulation, snapshot, particles, log, error,
                   frames, is_solid, gif>>

\* for i,f in enumerate(frames[1:]): a = render(f, particles, is_solid[i]);
\* ...; ims.append(im_p).  The index i counts from 0 over frames[1:], so f is
\* frames[i + 1] and the mask is is_solid[i] (sequences here start at 1).
RenderNext ==
    /\ pc = "frames"
    /\ Len(ims) < Len(frames) - 1
    /\ LET i == Len(ims)
           f == frames[i + 2]
       IN  ims' = Append(ims, render(f, is_solid[i + 1]))
    /\ UNCHANGED <<pc, inputs, simulation, snapshot, particles, log, error,
                   frames, is_solid, im0, gif>>

\* blank = numpy.ones(shape=(im.height, im.width, 3), ...)*255; ...;
\* ims.append(im_p).  im is assigned in the loop only: with one frame the
\* loop body never ran and the read of im raises UnboundLocalError.
AppendBlank ==
    /\ pc = "frames"
    /\ Len(ims) = Len(frames) - 1
    /\ IF Len(frames) = 1
         THEN /\ error' = "UnboundLocalError"
              /\ pc' = "error"
              /\ ims' = ims
         ELSE /\ ims' = Append(ims, Blank)
              /\ pc' = "save"
              /\ error' = error
    /\ UNCHANGED <<inputs, simulation, snapshot, particles, log, frames,
                   is_solid, im0, gif>>

\* im0.save(f, 'gif', save_all=True, append_images=ims, duration=1000, loop=0)
Save ==
    /\ pc = "save"
    /\ gif' = <<im0>> \o ims
    /\ pc' = "saved"
    /\ UNCHANGED <<inputs, simulation, snapshot, particles, log, error,
                   frames, is_solid, im0, ims>>

MovieNext == RenderFirst \/ RenderNext \/ AppendBlank \/ Save

MovieSpec == MovieInit /\ [][MovieNext]_vars

\* The lattice as a function of its parameters: every particle count up to
\* MaxLatticeN, hard spheres (of diameter 1) and spherocylinders of every
\* diameter and length up to the bounds.
LatticeInit ==
    /\ pc = "initialize"
    /\ driver \in Drivers
    /\ N_particles \in 1..MaxLatticeN
    /\ params_D \in (IF driver = "sphere" THEN {1} ELSE 1..MaxDiameter)
    /\ params_L \in (IF driver = "sphere" THEN {0} ELSE 0..MaxLength)
    /\ rho_star = final_packing_fraction
    /\ budget = MaxBudget
    /\ t0 = RandomizeSteps
    /\ initial_box = N_particles * InitVolume
    /\ box = initial_box
    /\ final_box = Unset
    /\ overlaps = 0
    /\ complete = FALSE
    /\ timestep = 0
    /\ steps_left = 0
    /\ phase = "idle"
    /\ accepted = 0
    /\ rejected = 0
    /\ error = "none"
    /\ compressed_gsd = FALSE
    /\ d = 1
    /\ before = Unset
    /\ optimum = Unset
    /\ snapshot = NoSnapshot
    /\ trajectory = <<>>
    /\ runs = 0
    /\ log = <<>>
    /\ NoMovie
    /\ NoParticles

LatticeNext == Initialize

LatticeSpec == LatticeInit /\ [][LatticeNext]_vars

\* -------------------------------------------------------------- claims
\* A compression check: the updater acts at its trigger tick.
AtCheck == pc = "run" /\ phase = "update"

AtTarget == box = final_box /\ overlaps = 0

\* A driver that has left the while loop.
LoopLeft == pc \in {"check", "failed", "write", "written", "equilibrate", "done"}

C2_FailureStopsRun ==
    (compressed_gsd \/ pc \in {"write", "written", "equilibrate"}) => complete

\* C3: when compressing (initial volume >= target volume) every step leaves a
\* volume v' with target <= v' <= current volume.
C3_ShrinkMonotoneToTarget ==
    [][ (final_box # Unset /\ initial_box >= final_box)
          => (final_box <= box' /\ box' <= box) ]_vars

\* C3 witness: a compression that has shrunk the box but not yet to the target.
C3_Witness ==
    final_box # Unset /\ final_box < box /\ box < initial_box

\* C4: a compression check that starts with overlaps leaves the box unchanged,
\* and the box changes only at a check that starts with zero overlaps.
C4_NoRescaleWithOverlaps ==
    [][ /\ (AtCheck /\ overlaps > 0) => box' = box
        /\ box' # box => (AtCheck /\ overlaps = 0) ]_vars

\* C4 witness: a check starts with overlaps left, away from the target (the
\* box has been shrunk before).
C4_Witness ==
    AtCheck /\ overlaps > 0 /\ box # final_box /\ box # initial_box

Compressing == final_box # Unset /\ initial_box >= final_box

Expanding == final_box # Unset /\ initial_box < final_box

C6_CompleteStaysTrue ==
    [][ complete => (complete' /\ box' = final_box /\ overlaps' = 0
                       /\ final_box' = final_box) ]_vars

\* C6 witness: trial moves have been made in the run after the check that
\* found the compression complete (the counters start at 0 on its tick).
C6_Witness ==
    complete /\ pc = "run" /\ accepted > 0 /\ rejected > 0

\* C7: a compression check at the target box with zero overlaps changes
\* neither the box nor the configuration nor the counters, and complete is
\* true after it (and stays true when it was).
C7_CheckAtTargetIsNoOp ==
    [][ (AtCheck /\ AtTarget)
          => /\ box' = box /\ overlaps' = overlaps
             /\ accepted' = accepted /\ rejected' = rejected
             /\ timestep' = timestep /\ final_box' = final_box
             /\ complete' ]_vars

\* C7 witness: the check is repeated in a state it has already found complete.
C7_Witness == AtCheck /\ AtTarget /\ complete

\* C8: with a step budget of 0, compress(params) and the hard-sphere notebook
\* take no simulation step (time step, box, overlaps and counters are those
\* of the start), never report complete, write nothing, and end in the
\* failure.
C8_ZeroBudgetFailsAtOnce ==
    (budget = 0 /\ driver # "walkthrough")
      => /\ timestep = t0 /\ box = initial_box /\ overlaps = 0
         /\ accepted = 0 /\ rejected = 0
         /\ ~complete /\ ~compressed_gsd
         /\ pc \in {"setup", "error", "loop", "check", "failed"}
         /\ (pc = "failed" => error = "RuntimeError")

\* C8 witness: the failure is reported with a budget of 0.
C8_Witness ==
    budget = 0 /\ pc = "failed" /\ error = "RuntimeError" /\ timestep = t0

\* C9: an invalid spherocylinder target (rho_star outside (0, 1]) is rejected
\* at set-up time: no simulation step runs and the live box does not change.
C9_InvalidTargetRejected ==
    (driver # "sphere" /\ InvalidTarget(rho_star))
      => (pc \in {"setup", "error"} /\ timestep = t0 /\ box = initial_box)

\* C10: when the target volume is larger than the initial volume, the volume
\* never decreases and never exceeds the target, the only error a run may end
\* in is the exhausted budget, and a run whose budget is never exhausted
\* reaches complete with the box at the target.
C10_ExpansionConverges ==
    /\ [][ Expanding => (box <= box' /\ box' <= final_box) ]_vars
    /\ [](Expanding /\ error # "none"
            => (error = "RuntimeError" /\ ~complete
                  /\ ~WithinBudget(timestep, budget)))
    /\ (pc = "loop" /\ Expanding /\ budget = NoBudget) ~> (complete /\ AtTarget)

\* C10 witness: an expansion has reached the larger target and is complete.
C10_Witness ==
    Expanding /\ box > initial_box /\ complete /\ AtTarget

Equilibrating == pc \in {"equilibrate", "done"}

\* C12: the trigger of the equilibration tuner is built with the value t0 +
\* TuneSteps, t0 the time step at which it is built; the tuner is evaluated at
\* time step t only if t is a multiple of the period and t < t0 + TuneSteps,
\* the move size changes only in such an evaluation, and from the first time
\* step >= t0 + TuneSteps on the move size never changes again.
C12_TunerFrozenAfterBefore ==
    /\ [][ (pc = "written" /\ pc' = "equilibrate")
              => before' = timestep + TuneSteps ]_vars
    /\ []((pc = "equilibrate" /\ phase = "tune")
            => (Periodic(EquilTunePeriod, timestep) /\ timestep < before))
    /\ [][ (Equilibrating /\ d' # d) => (phase = "tune" /\ timestep < before) ]_vars
    /\ [][ (Equilibrating /\ timestep >= before)
              => (d' = d /\ phase' # "tune" /\ before' = before
                    /\ timestep' >= before') ]_vars

\* C12 witness: a time step of the equilibration run that is a multiple of the
\* period but not before the threshold: the tuner is not evaluated (the window
\* of moves is still there when the trial moves start) and the move size is
\* one the tuner has set while it was active.
C12_Witness ==
    /\ pc = "equilibrate" /\ phase = "integrate"
    /\ Periodic(EquilTunePeriod, timestep) /\ timestep >= before
    /\ accepted + rejected > 0
    /\ d > max_translation_move

\* A tuning evaluation: the tuner acts at its trigger tick, in the compression
\* run or in the equilibration run.
AtTune == pc \in {"run", "equilibrate"} /\ phase = "tune"

\* The maximum the tuner of the running stage is configured with.
MaxMove == IF pc = "equilibrate" THEN MaxAmplitude ELSE max_translation_move

\* C13: a tuning evaluation with at least one attempted move scales the move
\* size up when accepted / (accepted + rejected) is above the target (it stays
\* only when it is at the maximum already), scales it down when the ratio is
\* below the target (it stays only at the lowest grid point) and leaves it
\* unchanged when the ratio equals the target.
C13_ScaleDirection ==
    [][ (AtTune /\ accepted + rejected > 0)
          => /\ (accepted * TargetDen > TargetNum * (accepted + rejected))
                  => (d' >= d /\ (d' = d => d = MaxMove))
             /\ (accepted * TargetDen < TargetNum * (accepted + rejected))
                  => (d' <= d /\ (d' = d => d = 1))
             /\ (accepted * TargetDen = TargetNum * (accepted + rejected))
                  => d' = d ]_vars

\* C13 witness: the equilibration tuner has just been evaluated (the counters
\* are at 0 on a tick of its trigger) and the move size stands above every
\* move size of a new integrator: it has been scaled up.
C13_Witness ==
    /\ pc = "equilibrate" /\ phase = "integrate"
    /\ EquilTrigger(timestep, before)
    /\ accepted = 0 /\ rejected = 0 /\ N_particles > 0
    /\ d > max_translation_move

C15_EmptyWindowSkipped ==
    [][ (AtTune /\ accepted + rejected = 0)
          => /\ d' = d /\ error' = error /\ pc' = pc
             /\ steps_left' = steps_left
             /\ phase' \in {"update", "integrate"} ]_vars

\* C15 witness: the trial moves of the first time step of a compression run
\* are about to start: the tuner has been evaluated on this time step, before
\* any move was attempted, with a move size that is not the lowest.
C15_Witness ==
    /\ pc = "run" /\ phase = "integrate" /\ timestep = t0
    /\ budget # NoBudget /\ steps_left = RunSteps
    /\ N_particles > 0 /\ d > 1 /\ error = "none"

\* C16: right after every tuning evaluation the accepted and rejected counters
\* are zero, so the window of an evaluation holds at most the moves of the
\* time steps since the previous evaluation (one trigger period).
C16_CountersZeroAfterTune ==
    /\ [][ AtTune => (accepted' = 0 /\ rejected' = 0) ]_vars
    /\ []((pc = "run" /\ phase = "tune")
            => accepted + rejected <= N_particles * TriggerPeriod)
    /\ []((pc = "equilibrate" /\ phase = "tune")
            => accepted + rejected <= N_particles * EquilTunePeriod)

\* C16 witness: the compression tuner has just consumed a window of a full
\* trigger period (the updater is next on this time step).
C16_Witness ==
    /\ pc = "run" /\ phase = "update" /\ accepted = 0 /\ rejected = 0
    /\ budget # NoBudget /\ timestep >= t0 + TriggerPeriod /\ N_particles > 0

\* The distance of the move size from the optimum of the acceptance model.
Distance == IF d >= optimum THEN d - optimum ELSE optimum - d

C18_NoOverlapsOutsideCompression ==
    /\ [][ (pc \in {"randomize", "equilibrate"}) => overlaps' <= overlaps ]_vars
    /\ [](pc = "randomize" => overlaps = 0)
    /\ []((Equilibrating /\ complete) => overlaps = 0)

\* C18 witness: an equilibration run that followed the randomization and a
\* completed compression of a dilute box has ended, with accepted and
\* rejected trial moves behind it.
C18_Witness ==
    /\ pc = "done" /\ t0 = RandomizeSteps /\ complete
    /\ final_box < initial_box /\ overlaps = 0
    /\ accepted > 0 /\ rejected > 0

C21_TargetFixedBeforeLoop ==
    [][ /\ final_box # Unset => final_box' = final_box
        /\ pc' \in {"loop", "run"} => final_box' # Unset
        /\ final_box' # final_box
              => pc = "setup" /\ box' = box /\ box' = initial_box
        /\ box' # box => AtCheck /\ Periodic(TriggerPeriod, timestep) ]_vars

\* C21 witness: the first compression tick is about to act: the target is
\* computed and smaller than the live box, which is still the initial box.
C21_Witness ==
    /\ pc = "run" /\ phase = "update" /\ timestep = t0 /\ runs = 1
    /\ final_box # Unset /\ final_box < box /\ box = initial_box

\* C22: during the equilibration run the trajectory only grows: a step either
\* leaves it as it is or appends one frame, and then the time step reached is
\* a multiple of the period of the writer; the frames are in strictly
\* increasing order of time step, and the frames already written stay as they
\* are.
C22_TrajectoryOnlyGrows ==
    [][ pc = "equilibrate"
          => /\ \/ trajectory' = trajectory
                \/ /\ trajectory' = Append(trajectory, timestep')
                   /\ Periodic(WritePeriod, timestep')
                   /\ timestep' = timestep + 1
             /\ \A i \in 1..Len(trajectory) : trajectory'[i] = trajectory[i]
             /\ \A i \in 1..Len(trajectory') :
                    /\ Periodic(WritePeriod, trajectory'[i])
                    /\ \A j \in 1..(i - 1) : trajectory'[j] < trajectory'[i] ]_vars

\* C22 witness: the equilibration run has ended with two frames written.
C22_Witness ==
    /\ pc = "done" /\ Len(trajectory) = 2
    /\ trajectory[1] + WritePeriod = trajectory[2]

\* The driver has just left the while loop: the time step is the one the loop
\* condition saw.
AtLoopExit == pc \in {"check", "failed", "write", "written"}

\* ceil((B - t0) / 1000), and 0 when t0 >= B
MaxRuns ==
    IF t0 >= budget THEN 0 ELSE (budget - t0 + RunSteps - 1) \div RunSteps

\* C23, as stated: when the loop is left, complete is true or the time step t
\* satisfies B <= t < B + 1000.
C23_ExitWithinOneChunk ==
    AtLoopExit => complete \/ (budget <= timestep /\ timestep < budget + RunSteps)

\* C23, amended: the loop always terminates; it makes at most
\* ceil((B - t0) / 1000) calls of sim.run(1000), none when t0 >= B; when it is
\* left, complete is true, or no call was made and the time step is t0 >= B,
\* or the time step t satisfies B <= t < B + 1000.
C23_LoopTerminates ==
    /\ [](/\ runs <= MaxRuns
          /\ AtLoopExit
               => \/ complete
                  \/ runs = 0 /\ timestep = t0 /\ t0 >= budget
                  \/ budget <= timestep /\ timestep < budget + RunSteps)
    /\ (pc = "loop" ~> LoopLeft)

\* C23 witness: the loop is left without completion after the largest number
\* of calls its budget allows, the last of which went past the budget.
C23_Witness ==
    /\ pc = "failed" /\ ~complete /\ t0 = 0 /\ budget = MaxBudget
    /\ runs = MaxRuns /\ runs > 1
    /\ timestep > budget /\ timestep < budget + RunSteps

\* C24: in compress(params) the RuntimeError is raised exactly when complete
\* is false as the loop is left, and nowhere else; a compression that
\* completes during its last chunk, the time step reaching the budget, is a
\* success: nothing is raised and the next step writes compressed.gsd, which
\* is only ever written with complete true.
C24_FailureIffNotComplete ==
    [][ driver = "compress"
          => /\ pc = "check" => ((error' = "RuntimeError") <=> ~complete)
             /\ (error' = "RuntimeError" /\ error # "RuntimeError")
                   => pc = "check"
             /\ (pc = "check" /\ complete) => (pc' = "write" /\ error' = "none")
             /\ pc = "write" => (complete /\ compressed_gsd' /\ error' = "none")
             /\ (compressed_gsd' /\ ~compressed_gsd) => pc = "write" ]_vars

\* C24 witness: compress(params) has written compressed.gsd after a compression
\* of a dilute box that completed in a chunk that took the time step to the
\* budget or past it.
C24_Witness ==
    /\ driver = "compress" /\ pc = "written" /\ compressed_gsd /\ complete
    /\ error = "none" /\ N_particles > 0 /\ final_box < initial_box
    /\ budget # NoBudget /\ timestep >= budget /\ runs = MaxRuns /\ runs > 0

\* The number of file operations run_simulation has made when the driver is
\* at position p.
FileOpsAt(p) ==
    CASE p = "initialize" -> 0
      [] p = "initialized" -> 1
      [] p = "randomize" -> 2
      [] p = "randomized" -> 3
      [] p \in {"setup", "loop", "run", "check", "write", "failed", "error"} -> 4
      [] p = "written" -> 5
      [] p \in {"equilibrate", "done"} -> 6

\* C25: run_simulation executes initialize, randomize, compress and
\* equilibrate in this order: the reads and writes of the GSD files are at all
\* times a beginning of the sequence write lattice.gsd, read lattice.gsd,
\* write random.gsd, read random.gsd, write compressed.gsd, read
\* compressed.gsd, as long as the position of the driver says; so each stage
\* reads only the file the stage before it wrote, and after it was written.
\* A stage that raises is the last step of the run: no later stage starts.
C25_StagesInOrder ==
    /\ [](driver = "compress"
            => /\ log = SubSeq(FileOrder, 1, FileOpsAt(pc))
               /\ error # "none" => pc \in {"failed", "error"})
    /\ [][ (driver = "compress" /\ error # "none") => FALSE ]_vars

\* C25 witness: run_simulation has run its four stages to the end.
C25_Witness ==
    /\ driver = "compress" /\ pc = "done" /\ log = FileOrder
    /\ error = "none" /\ N_particles > 0 /\ snapshot.N = N_particles
    /\ Len(trajectory) > 0

\* C26: with the trigger Periodic(10) the live box changes only in a tick of
\* the updater at a time step that is a multiple of 10.  A tick is entered
\* from the tuner of the same time step and is followed by the trial moves of
\* that time step, which advance the time step, so the box changes at most
\* once per time step.  A tick attempts no trial move: it leaves the counters
\* and the time step as they are; and no step that makes trial moves changes
\* the box.
C26_BoxChangesOnlyAtTicks ==
    [][ /\ box' # box => (AtCheck /\ Periodic(TriggerPeriod, timestep))
        /\ AtCheck => /\ accepted' = accepted /\ rejected' = rejected
                      /\ timestep' = timestep /\ phase' = "integrate"
        /\ phase' = "update" => (phase = "tune" /\ timestep' = timestep)
        /\ (phase' = "tune" /\ pc = "run") => timestep' # timestep
        /\ phase = "integrate" => (box' = box /\ timestep' # timestep) ]_vars

\* C26 witness: a tick later than the first has just reduced the box, leaving
\* overlaps; the time step is a multiple of the trigger period and the trial
\* moves of the time step are still to come.
C26_Witness ==
    /\ pc = "run" /\ phase = "integrate" /\ timestep > t0
    /\ Periodic(TriggerPeriod, timestep) /\ budget # NoBudget
    /\ final_box < box /\ box < initial_box /\ overlaps > 0
    /\ accepted = 0 /\ rejected = 0

\* C27: for every N >= 1 the lattice has exactly N positions, pairwise
\* distinct and all inside the box (-L/2 <= x < L/2 along each axis, with
\* L = K * spacing in the lattice directions), and K, the ceiling of the cube
\* root of N (hard spheres) or of the square root of N (spherocylinders),
\* satisfies K^3 >= N or K^2 >= N.
C27_LatticeHoldsN ==
    pc = "initialized"
      => /\ snapshot.N = N_particles
         /\ Len(snapshot.position) = N_particles
         /\ \A i, j \in 1..Len(snapshot.position) :
                i # j => snapshot.position[i] # snapshot.position[j]
         /\ \A i \in 1..Len(snapshot.position) :
                InsideBox(snapshot.position[i], snapshot.box)
         /\ snapshot.box[1] = snapshot.K * Spacing(params_D)
         /\ snapshot.box[2] = snapshot.K * Spacing(params_D)
         /\ snapshot.K ^ Dimensions(driver) >= N_particles
         /\ (snapshot.K - 1) ^ Dimensions(driver) < N_particles

\* C27 witness: a lattice of hard spheres of more than one layer that N does
\* not fill.
C27_Witness ==
    /\ pc = "initialized" /\ N_particles > 2
    /\ snapshot.K > 1 /\ snapshot.K ^ Dimensions(driver) > N_particles
    /\ Len(snapshot.position) = N_particles
    /\ driver = "sphere"

\* Any two sites of the lattice, periodic images included, are at least a
\* lattice spacing apart, and the spacing is larger than the diameter.
SitesApart ==
    /\ Spacing(params_D) > params_D * LengthUnit
    /\ snapshot.box[1] >= Spacing(params_D)
    /\ snapshot.box[2] >= Spacing(params_D)
    /\ \A i, j \in 1..Len(snapshot.position) :
           i < j => Distance2(snapshot.position[i], snapshot.position[j],
                              snapshot.box) >= Spacing(params_D)^2

\* The box is higher than a spherocylinder is long, caps included.
HigherThanParticle == snapshot.box[3] > (params_L + params_D) * LengthUnit

Attempted == attempts' = attempts + 1

\* C29: a rejected trial move leaves every position, every orientation and the
\* box unchanged and increments only the rejected counter; an accepted trial
\* move changes the position or the orientation of one particle and of no
\* other, leaves the box unchanged and increments only the accepted counter;
\* the two counters add up to the trial moves attempted since the last reset.
C29_TrialMoveEffects ==
    /\ [][ Attempted
             => /\ box' = box
                /\ \/ /\ rejected' = rejected + 1 /\ accepted' = accepted
                      /\ position' = position /\ orientation' = orientation
                   \/ /\ accepted' = accepted + 1 /\ rejected' = rejected
                      /\ \E i \in 1..N_particles :
                            /\ <<position'[i], orientation'[i]>>
                                  # <<position[i], orientation[i]>>
                            /\ \A j \in 1..N_particles :
                                  j # i => /\ position'[j] = position[j]
                                           /\ orientation'[j] = orientation[j] ]_vars
    /\ [](pc = "moves" => accepted + rejected = attempts)

\* C29 witness: trial moves have been accepted and rejected among particles
\* of both orientations.
C29_Witness ==
    /\ pc = "moves" /\ N_particles > 1
    /\ accepted > 0 /\ rejected > 0 /\ attempts = accepted + rejected
    /\ \E i \in 1..N_particles : orientation[i] = 1
    /\ \E i \in 1..N_particles : orientation[i] = 0

\* C30, as stated: for one frame or more and an is_solid of the same length,
\* render_movie finishes without error, renders frame j with is_solid[j] and
\* saves the frames in order followed by exactly one blank image:
\* len(frames) + 1 images.
C30_MovieRendersEveryFrameWithItsMask ==
    /\ error = "none"
    /\ pc = "saved"
         => /\ Len(gif) = Len(frames) + 1
            /\ \A j \in 1..Len(frames) : gif[j] = render(frames[j], is_solid[j])
            /\ gif[Len(frames) + 1] = Blank

====
